---- MODULE Spec2Model ----
(***************************************************************************)
(* State-machine model of the caching / rate-limiting core of the news     *)
(* backend:                                                                *)
(*   - GroqRateLimiter   (src/backend/middleware/groqRateLimiter.js)       *)
(*   - AdvancedCache     (src/unnamed/part_002, advancedCache.js)          *)
(*   - OptimizationManager (src/unnamed/part_002, optimizationManager.js)  *)
(*   - CommentaryWorker  (src/unnamed/part_011, commentaryWorker.js)       *)
(* JavaScript runs each callback to completion; an `await` is the only     *)
(* place where a handler is suspended.  Every action below is one such     *)
(* run-to-completion segment.                                              *)
(***************************************************************************)
EXTENDS Integers, Sequences, FiniteSets, TLC

(***************************************************************************)
(* Bounds and input sets                                                   *)
(***************************************************************************)
\* number of executeRequest calls in one behaviour
MaxReq == 3

\* options.tokensPerMinute of the limiter under test (the spec's scenario
\* uses a capacity of 100; the singleton passes 5500)
tokensPerMinute == 100

\* options.estimatedTokens values the callers pass; 120 exceeds the capacity
Costs == {30, 80, 120}

\* options.priority values
Priorities == {"high", "normal", "low"}

ReqIds == 1..MaxReq

\* number of getWithSWR calls in one behaviour
MaxCalls == 2

\* number of one-second steps of the clock
MaxClock == 3

\* maxKeys of the NodeCache (500 in the source), scaled below the two keys
\* so that the cache can be full
maxKeys == 1

\* cache keys, as their ':'-separated segments (getArticleKey, getSearchKey)
Keys == {<<"articles", "home">>, <<"search", "q">>}

\* options.ttl and options.staleTime, in seconds
TTLs == {2}
StaleTimes == {1}

\* options.priority of getWithSWR ('high' takes the branch of 'normal')
CachePriorities == {"normal", "low"}

\* what fetchFunction resolves to: arrays of articles, the empty one included
Payloads == {<<>>, <<"a">>, <<"b">>}

CallIds == 1..MaxCalls

\* number of processQueue runs of the worker that take an item
MaxJobs == 2

\* this.maxDailyCommentaries (100 in the source), scaled down so that the
\* quota can be reached
maxDailyCommentaries == 1

\* executeRequest's default estimatedTokens (200 of 5500 in the source),
\* scaled to the capacity of 100 so that a second call in a window queues
DefaultEstimatedTokens == 80

\* the articles handed to addArticlesToQueue: _id, age in hours, section,
\* views, shares, and whether they already have a commentary
Articles ==
  { [id |-> 1, ageHours |-> 100, section |-> "sports", views |-> 0,
     shares |-> 0, commentary |-> FALSE],
    [id |-> 2, ageHours |-> 2, section |-> "politics", views |-> 500,
     shares |-> 50, commentary |-> FALSE],
    [id |-> 3, ageHours |-> 2, section |-> "health", views |-> 0,
     shares |-> 0, commentary |-> TRUE] }

\* the argument lists of addArticlesToQueue: one or two distinct articles
Batches ==
  {<<a>> : a \in Articles}
    \cup {s \in {<<a, b>> : a \in Articles, b \in Articles} : s[1] # s[2]}

\* what the text-generation API or the database client throws: the words of
\* error.message, cut so that the substrings the worker looks for are words
ProviderErrors ==
  { [class |-> "ratelimit", message |-> <<"429", "Rate limit", "reached">>],
    [class |-> "timeout", message |-> <<"Connection", "timeout">>],
    [class |-> "other", message |-> <<"Internal", "Server", "Error">>] }

\* the rejection of queueRequest's timer (groqRateLimiter.js line 125):
\* `Request ${requestId} timed out in queue`
QueueTimeoutError ==
  [class |-> "queueTimeout",
   message |-> <<"Request", "req_id", "timed", "out", "in", "queue">>]

JobIds == 1..MaxJobs

\* maxKeys of the NodeCache as configured: the largest key count that
\* advancedCache.cleanup can find
MaxKeyCount == 500

\* cleanup leaves the cache alone up to this many keys (line 389)
CleanupThreshold == 400

\* the strategy argument of smartCache: the four of the table, and one that
\* the table does not list
Strategies == {"articles", "commentary", "nyt", "subscribers", "default"}

\* the pattern argument of clearPattern (routes/health.js passes 'articles')
Patterns == {"articles", "search"}

\* preAdmit of a request that was never admitted, and of one whose budget
\* was changed by something else while it was in flight
NotAdmitted == [admitted |-> FALSE, clean |-> FALSE, value |-> 0]
Disturbed == [admitted |-> TRUE, clean |-> FALSE, value |-> 0]
CleanAt(av) == [admitted |-> TRUE, clean |-> TRUE, value |-> av]

VARIABLES
  \* ---- GroqRateLimiter ----
  availableTokens,  \* this.availableTokens
  queue,            \* this.queue, as the sequence of the entries' request ids
  nextId,           \* number of executeRequest calls made so far
  estimatedTokens,  \* queueEntry.estimatedTokens / the call's estimatedTokens
  priority,         \* queueEntry.priority
  timeout,          \* queueEntry.timeout: TRUE while the setTimeout is pending
  status,           \* state of the promise executeRequest returned to the caller
  fnResult,         \* outcome of requestFunction(): "none" | "ok" | "throw"
  invoked,          \* how many times requestFunction was called
  viaQueue,         \* TRUE when the request went through queueRequest
  resuming,         \* request whose awaiting processQueue is about to resume (0: none)
  \* ---- history, for the properties only ----
  inWindow,         \* admitted since the last firing of the refill timer
  preAdmit,         \* availableTokens just before the request's admission, or
                    \* Disturbed once another admission, credit or refill
                    \* happened while the request was in flight
  leftBehind        \* the ids still queued at the moment the request was dispatched

VARIABLES
  \* ---- AdvancedCache ----
  now,              \* Date.now(), in milliseconds
  redisClient,      \* TRUE while the module's redisClient is not null
  memoryCache,      \* the NodeCache: key -> [data, timestamp, t] (t: expiry time)
  redisStore,       \* the remote cache: key -> [json, exp]
  nextCall,         \* number of getWithSWR calls made so far
  calls,            \* per getWithSWR call: arguments, position, history, result
  bg                \* per call: the background refresh it scheduled

VARIABLES
  \* ---- AdvancedCache.delete / clearPattern / clearAll ----
  admin,            \* the one maintenance call of a behaviour: position and outcome
  \* ---- advancedCache.cleanup ----
  cacheKeys,        \* memoryCache.keys(): the keys in insertion order
  lastCleanup,      \* history: what the last cleanup run found and deleted
  \* ---- OptimizationManager ----
  isInitialized,    \* this.isInitialized
  smart,            \* per smartCache call: strategy, position, result
  \* ---- CommentaryWorker ----
  wQueue,           \* this.queue: the items [articleId, priority]
  processedToday,   \* this.processedToday
  nextJob,          \* number of processQueue runs that took an item so far
  jobs,             \* per such run: the item, its position, the request it made
  lastDrain,        \* history: what the last processQueue run found at its entry
  scan              \* position of the populateQueue call made at server start

cacheVars == <<now, redisClient, memoryCache, redisStore, nextCall, calls, bg>>

adminVars == <<admin>>
cleanupVars == <<cacheKeys, lastCleanup>>
managerVars == <<isInitialized, smart>>
workerVars == <<wQueue, processedToday, nextJob, jobs, lastDrain, scan>>

\* everything outside the rate limiter and outside getWithSWR
extVars == <<adminVars, cleanupVars, managerVars, workerVars>>

rlVars == <<availableTokens, queue, nextId, estimatedTokens, priority, timeout,
            status, fnResult, invoked, viaQueue, resuming,
            inWindow, preAdmit, leftBehind>>

vars == <<rlVars, cacheVars, extVars>>

\* lastCleanup before any cleanup has run
NoCleanup == [ran |-> FALSE, keyCount |-> 0, deleted |-> <<>>]

\* a smartCache call that has not been made
IdleSmart == [pc |-> "idle", strategy |-> "none", path |-> "none",
              fetchCount |-> 0, ret |-> [state |-> "pending", data |-> <<>>]]

\* no error caught
NoError == [class |-> "none", message |-> <<>>]

\* a processQueue run that has not happened
IdleJob == [pc |-> "idle", item |-> [articleId |-> 0, priority |-> 0],
            req |-> 0, direct |-> FALSE, outcome |-> "none", error |-> NoError]

\* lastDrain before any processQueue run
NoDrain == [found |-> "none"]

(***************************************************************************)
(* Helpers                                                                 *)
(***************************************************************************)
Range(s) == {s[i] : i \in 1..Len(s)}

RECURSIVE SumOver(_, _)
SumOver(f, S) ==
  IF S = {} THEN 0
  ELSE LET x == CHOOSE y \in S : TRUE IN f[x] + SumOver(f, S \ {x})

\* requestFunction has been called and has not settled yet
InFlight(id) == status[id] = "running" /\ fnResult[id] = "none"

\* history: the budget of every in-flight request other than `by` is disturbed
Disturb(pre, by) ==
  [j \in ReqIds |-> IF j # by /\ InFlight(j) THEN Disturbed ELSE pre[j]]

(***************************************************************************)
(* GroqRateLimiter                                                         *)
(***************************************************************************)
RLInit ==
  /\ availableTokens = tokensPerMinute
  /\ queue = <<>>
  /\ nextId = 0
  /\ estimatedTokens = [i \in ReqIds |-> 0]
  /\ priority = [i \in ReqIds |-> "normal"]
  /\ timeout = [i \in ReqIds |-> FALSE]
  /\ status = [i \in ReqIds |-> "new"]
  /\ fnResult = [i \in ReqIds |-> "none"]
  /\ invoked = [i \in ReqIds |-> 0]
  /\ viaQueue = [i \in ReqIds |-> FALSE]
  /\ resuming = 0
  /\ inWindow = [i \in ReqIds |-> FALSE]
  /\ preAdmit = [i \in ReqIds |-> NotAdmitted]
  /\ leftBehind = [i \in ReqIds |-> {}]

\* executeRequest line 67: enough tokens for an immediate execution
HasTokens(av, cost) == av >= cost

\* queueRequest lines 130-134, mutated: every entry is appended
QueueInsertAppendOnly(q, id, p) == Append(q, id)

\* queueRequest lines 130-134: 'high' is unshifted, anything else is pushed
QueueInsert(q, id, p) ==
  IF p = "high" THEN <<id>> \o q ELSE Append(q, id)

\* removeFromQueue, mutated: the entry is looked up but not spliced out
removeFromQueueKeep(q, id) == q

\* removeFromQueue: findIndex + splice
removeFromQueue(q, id) ==
  IF \E i \in 1..Len(q) : q[i] = id
  THEN LET idx == CHOOSE i \in 1..Len(q) : q[i] = id /\ \A j \in 1..(i-1) : q[j] # id
       IN [k \in 1..(Len(q) - 1) |-> IF k < idx THEN q[k] ELSE q[k + 1]]
  ELSE q

\* executeImmediate catch, mutated: the tokens are not returned
CreditBackNone(av, cost) == av

\* executeImmediate line 102: availableTokens += estimatedTokens
CreditBack(av, cost) == av + cost

\* processQueue lines 149-152, mutated: the head is never taken
HeadFitsNever(q, av, est) == FALSE

\* processQueue lines 149-152: the loop condition and the head's budget test
HeadFits(q, av, est) ==
  /\ Len(q) > 0
  /\ av > 0
  /\ av >= est[Head(q)]

\* executeImmediate lines 80-85: debit, then call requestFunction and await it.
\* av, st, inw, pre are the values the calling handler has produced so far.
Admit(id, cost, av, st, inw, pre) ==
  /\ availableTokens' = av - cost
  /\ status' = [st EXCEPT ![id] = "running"]
  /\ invoked' = [invoked EXCEPT ![id] = @ + 1]
  /\ inWindow' = [inw EXCEPT ![id] = TRUE]
  /\ preAdmit' = [Disturb(pre, id) EXCEPT ![id] = CleanAt(av)]

\* processQueue up to its first await: at most the head is dispatched, the
\* loop goes on when the awaited executeImmediate settles (ResumeProcessQueue)
ProcessQueue(av, st, inw, pre) ==
  IF HeadFits(queue, av, estimatedTokens)
  THEN LET h == Head(queue) IN
       /\ queue' = Tail(queue)
       /\ timeout' = [timeout EXCEPT ![h] = FALSE]
       /\ leftBehind' = [leftBehind EXCEPT ![h] = Range(Tail(queue))]
       /\ Admit(h, estimatedTokens[h], av, st, inw, pre)
  ELSE /\ availableTokens' = av
       /\ status' = st
       /\ inWindow' = inw
       /\ preAdmit' = pre
       /\ UNCHANGED <<queue, timeout, leftBehind, invoked>>

\* executeRequest (lines 55-73): admitted at once, or queued with its timeout
\* timer; the effect on the limiter, whoever the caller is
executeRequest(cost, prio) ==
  /\ resuming = 0
  /\ nextId < MaxReq
  /\ LET id == nextId + 1 IN
     /\ nextId' = id
     /\ estimatedTokens' = [estimatedTokens EXCEPT ![id] = cost]
     /\ priority' = [priority EXCEPT ![id] = prio]
     /\ IF HasTokens(availableTokens, cost)
        THEN /\ Admit(id, cost, availableTokens, status, inWindow, preAdmit)
             /\ UNCHANGED <<queue, timeout, viaQueue, leftBehind>>
        ELSE /\ queue' = QueueInsert(queue, id, prio)
             /\ timeout' = [timeout EXCEPT ![id] = TRUE]
             /\ viaQueue' = [viaQueue EXCEPT ![id] = TRUE]
             /\ status' = [status EXCEPT ![id] = "queued"]
             /\ UNCHANGED <<availableTokens, invoked, inWindow, preAdmit,
                            leftBehind>>
  /\ UNCHANGED <<fnResult, resuming>>

\* executeRequest called by a client of the limiter
ExecuteRequest(cost, prio) ==
  /\ executeRequest(cost, prio)
  /\ UNCHANGED <<cacheVars, extVars>>

\* requestFunction settles and executeImmediate runs on: lines 87-97 on
\* success, lines 98-107 (credit back, rethrow) on failure.  An immediate
\* request's caller gets the outcome; a dispatched one's processQueue resumes.
Complete(id, ok) ==
  /\ resuming = 0
  /\ InFlight(id)
  /\ fnResult' = [fnResult EXCEPT ![id] = IF ok THEN "ok" ELSE "throw"]
  /\ availableTokens' = IF ok THEN availableTokens
                        ELSE CreditBack(availableTokens, estimatedTokens[id])
  /\ preAdmit' = IF ok THEN preAdmit ELSE Disturb(preAdmit, id)
  /\ IF viaQueue[id]
     THEN resuming' = id /\ status' = status
     ELSE /\ resuming' = 0
          /\ status' = [status EXCEPT ![id] = IF ok THEN "resolved" ELSE "rejected"]
  /\ UNCHANGED <<queue, nextId, estimatedTokens, priority, timeout, invoked,
                 viaQueue, inWindow, leftBehind>>
  /\ UNCHANGED <<cacheVars, extVars>>

\* processQueue lines 164-167 and the next turn of its while loop
ResumeProcessQueue ==
  /\ resuming # 0
  /\ resuming' = 0
  /\ ProcessQueue(availableTokens,
                  [status EXCEPT ![resuming] =
                     IF fnResult[resuming] = "ok" THEN "resolved" ELSE "rejected"],
                  inWindow, preAdmit)
  /\ UNCHANGED <<nextId, estimatedTokens, priority, fnResult, viaQueue>>
  /\ UNCHANGED <<cacheVars, extVars>>

\* the refillInterval callback, lines 20-24
RefillTimer ==
  /\ resuming = 0
  /\ ProcessQueue(tokensPerMinute, status,
                  [i \in ReqIds |-> FALSE], Disturb(preAdmit, 0))
  /\ UNCHANGED <<nextId, estimatedTokens, priority, fnResult, viaQueue, resuming>>
  /\ UNCHANGED <<cacheVars, extVars>>

\* the processInterval callback, lines 27-29
ProcessTimer ==
  /\ resuming = 0
  /\ ProcessQueue(availableTokens, status, inWindow, preAdmit)
  /\ UNCHANGED <<nextId, estimatedTokens, priority, fnResult, viaQueue, resuming>>
  /\ UNCHANGED <<cacheVars, extVars>>

\* the setTimeout callback of queueRequest, lines 123-126
QueueTimeout(id) ==
  /\ resuming = 0
  /\ timeout[id]
  /\ queue' = removeFromQueue(queue, id)
  /\ timeout' = [timeout EXCEPT ![id] = FALSE]
  /\ status' = [status EXCEPT ![id] = "timedout"]
  /\ UNCHANGED <<availableTokens, nextId, estimatedTokens, priority, fnResult,
                 invoked, viaQueue, resuming, inWindow, preAdmit, leftBehind>>
  /\ UNCHANGED <<cacheVars, extVars>>

(***************************************************************************)
(* AdvancedCache (getWithSWR, refreshCache, backgroundRefresh) over the    *)
(* NodeCache memoryCache and the optional redisClient                      *)
(***************************************************************************)
IdleCall ==
  [pc |-> "idle", key |-> <<>>, ttl |-> 0, staleTime |-> 0, priority |-> "normal",
   l1 |-> "none", l2 |-> "none", firstFetch |-> "none", fetchCount |-> 0,
   data |-> <<>>, stamp |-> 0, ret |-> [state |-> "pending", data |-> <<>>]]

NoBg == [pc |-> "none", fetchCount |-> 0, data |-> <<>>, stamp |-> 0]

CacheInit ==
  /\ now = 0
  /\ redisClient \in BOOLEAN
  /\ memoryCache = <<>>
  /\ redisStore = <<>>
  /\ nextCall = 0
  /\ calls = [c \in CallIds |-> IdleCall]
  /\ bg = [c \in CallIds |-> NoBg]

\* the cache subsystem while only the rate limiter is exercised
CacheIdle ==
  /\ now = 0
  /\ redisClient = FALSE
  /\ memoryCache = <<>>
  /\ redisStore = <<>>
  /\ nextCall = 0
  /\ calls = [c \in CallIds |-> IdleCall]
  /\ bg = [c \in CallIds |-> NoBg]

\* key.includes('articles'), on the key's segments
KeyIncludes(k, word) == \E i \in 1..Len(k) : k[i] = word

\* NodeCache.get: an entry past its expiry time t is not returned
MemLive(mem, k) == k \in DOMAIN mem /\ ~(mem[k].t < now)

\* NodeCache.get deletes the expired entry it finds
MemAfterGet(mem, k) ==
  IF k \in DOMAIN mem /\ mem[k].t < now
  THEN [x \in (DOMAIN mem) \ {k} |-> mem[x]]
  ELSE mem

\* NodeCache.set throws ECACHEFULL once maxKeys entries are held
MemFull(mem) == Cardinality(DOMAIN mem) >= maxKeys

\* NodeCache.set(key, {data, timestamp}, ttl)
MemSet(mem, k, d, ts, ttl) ==
  [x \in (DOMAIN mem) \cup {k} |->
     IF x = k THEN [data |-> d, timestamp |-> ts, t |-> now + ttl * 1000]
     ELSE mem[x]]

\* JSON.stringify(cacheEntry) / JSON.parse(redisData) of {data, timestamp}
JSONstringify(d, ts) == [data |-> d, timestamp |-> ts]
JSONparse(str) == [data |-> str.data, timestamp |-> str.timestamp]

\* redisClient.get: a key past its setex expiry is gone
RedisLive(store, k) == k \in DOMAIN store /\ now < store[k].exp

\* redisClient.setex(key, ttl, JSON.stringify(cacheEntry))
RedisSetex(store, k, ttl, str) ==
  [x \in (DOMAIN store) \cup {k} |->
     IF x = k THEN [json |-> str, exp |-> now + ttl * 1000] ELSE store[x]]

\* getWithSWR lines 106-107, mutated: ttl and staleTime are swapped
IsStaleSwapped(age, ttl, staleTime) == age > (staleTime - ttl) * 1000

\* getWithSWR lines 106-107: isStale
IsStale(age, ttl, staleTime) == age > (ttl - staleTime) * 1000

\* refreshCache line 172, mutated: every result is cached
SkipStoreNever(k, d) == FALSE

\* refreshCache line 172: an empty array under an 'articles' key is not cached
SkipStore(k, d) == KeyIncludes(k, "articles") /\ Len(d) = 0

Returned(d) == [state |-> "returned", data |-> d]
Thrown == [state |-> "thrown", data |-> <<>>]

\* refreshCache is entered: fetchFunction is called and awaited (line 169)
StartFetch(cl) == [cl EXCEPT !.pc = "fetch", !.fetchCount = @ + 1]

\* the catch of getWithSWR (lines 150-156): fetchFunction is called again
StartFallback(cl) == [cl EXCEPT !.pc = "fallback", !.fetchCount = @ + 1]

\* the third argument of getWithSWR: an options object, or whatever else the
\* caller passes in its place
OptionsObject(ttl, staleTime, prio) ==
  [type |-> "object", ttl |-> ttl, staleTime |-> staleTime, priority |-> prio]
NumberValue(n) == [type |-> "number", value |-> n]

\* getWithSWR lines 92-96: const { ttl = 300, staleTime = 60, priority =
\* 'normal' } = options; a number has none of the three properties
Destructure(options) ==
  IF options.type = "object"
  THEN [ttl |-> options.ttl, staleTime |-> options.staleTime,
        priority |-> options.priority]
  ELSE [ttl |-> 300, staleTime |-> 60, priority |-> "normal"]

\* getWithSWR up to its first await (lines 90-121, 142-146): the effect on
\* the cache, whoever the caller is
getWithSWR(k, ttl, staleTime, prio) ==
  /\ nextCall < MaxCalls
  /\ LET c == nextCall + 1
         cl == [IdleCall EXCEPT !.key = k, !.ttl = ttl, !.staleTime = staleTime,
                                !.priority = prio]
     IN
     /\ nextCall' = c
     /\ memoryCache' = MemAfterGet(memoryCache, k)
     /\ IF MemLive(memoryCache, k)
        THEN LET e == memoryCache[k]
                 stale == IsStale(now - e.timestamp, ttl, staleTime)
             IN
             /\ calls' = [calls EXCEPT ![c] =
                            [cl EXCEPT !.pc = "done",
                                       !.l1 = IF stale THEN "stale" ELSE "fresh",
                                       !.ret = Returned(e.data)]]
             /\ bg' = [bg EXCEPT ![c] =
                         IF stale /\ prio # "low"
                         THEN [NoBg EXCEPT !.pc = "timer"] ELSE NoBg]
        ELSE /\ calls' = [calls EXCEPT ![c] =
                            IF redisClient
                            THEN [cl EXCEPT !.pc = "redisGet", !.l1 = "miss"]
                            ELSE StartFetch([cl EXCEPT !.l1 = "miss"])]
             /\ bg' = bg
  /\ UNCHANGED <<now, redisClient, redisStore>>

\* getWithSWR called with an options object
GetWithSWR(k, ttl, staleTime, prio) ==
  /\ LET o == Destructure(OptionsObject(ttl, staleTime, prio))
     IN getWithSWR(k, o.ttl, o.staleTime, o.priority)
  /\ UNCHANGED <<rlVars, extVars>>

\* await redisClient.get(key) settles (lines 121-139)
RedisGetReturn(c, failed) ==
  /\ calls[c].pc = "redisGet"
  /\ LET cl == calls[c]
         k == cl.key
     IN
     IF failed
     THEN /\ calls' = [calls EXCEPT ![c] = StartFetch([cl EXCEPT !.l2 = "error"])]
          /\ UNCHANGED memoryCache
     ELSE IF RedisLive(redisStore, k)
     THEN LET parsedData == JSONparse(redisStore[k].json) IN
          IF MemFull(memoryCache)
          THEN \* memoryCache.set throws inside the inner try: logged as a
               \* Redis get error, then treated as a miss
               /\ calls' = [calls EXCEPT ![c] = StartFetch([cl EXCEPT !.l2 = "full"])]
               /\ UNCHANGED memoryCache
          ELSE /\ memoryCache' = MemSet(memoryCache, k, parsedData.data,
                                        parsedData.timestamp, cl.ttl)
               /\ calls' = [calls EXCEPT ![c] =
                              [cl EXCEPT !.pc = "done", !.l2 = "hit",
                                         !.ret = Returned(parsedData.data)]]
     ELSE /\ calls' = [calls EXCEPT ![c] = StartFetch([cl EXCEPT !.l2 = "miss"])]
          /\ UNCHANGED memoryCache
  /\ UNCHANGED <<now, redisClient, redisStore, nextCall, bg>>
  /\ UNCHANGED <<rlVars, extVars>>

\* await fetchFunction() of refreshCache settles with a value (lines 169-194)
FetchReturn(c, d) ==
  /\ calls[c].pc = "fetch"
  /\ LET cl == [calls[c] EXCEPT !.firstFetch = "ok"]
         k == cl.key
     IN
     IF SkipStore(k, d)
     THEN /\ calls' = [calls EXCEPT ![c] = [cl EXCEPT !.pc = "done", !.ret = Returned(d)]]
          /\ UNCHANGED memoryCache
     ELSE IF MemFull(memoryCache)
     THEN /\ calls' = [calls EXCEPT ![c] = StartFallback(cl)]
          /\ UNCHANGED memoryCache
     ELSE /\ memoryCache' = MemSet(memoryCache, k, d, now, cl.ttl)
          /\ calls' = [calls EXCEPT ![c] =
                         IF redisClient
                         THEN [cl EXCEPT !.pc = "setex", !.data = d, !.stamp = now]
                         ELSE [cl EXCEPT !.pc = "done", !.ret = Returned(d)]]
  /\ UNCHANGED <<now, redisClient, redisStore, nextCall, bg>>
  /\ UNCHANGED <<rlVars, extVars>>

\* await fetchFunction() of refreshCache throws (lines 195-198, 150-156)
FetchThrow(c) ==
  /\ calls[c].pc = "fetch"
  /\ calls' = [calls EXCEPT ![c] = StartFallback([calls[c] EXCEPT !.firstFetch = "throw"])]
  /\ UNCHANGED <<now, redisClient, memoryCache, redisStore, nextCall, bg>>
  /\ UNCHANGED <<rlVars, extVars>>

\* await redisClient.setex(...) of refreshCache settles (lines 186-194)
SetexReturn(c, failed) ==
  /\ calls[c].pc = "setex"
  /\ LET cl == calls[c] IN
     /\ redisStore' = IF failed THEN redisStore
                      ELSE RedisSetex(redisStore, cl.key, cl.ttl,
                                      JSONstringify(cl.data, cl.stamp))
     /\ calls' = [calls EXCEPT ![c] =
                    [cl EXCEPT !.pc = "done", !.data = <<>>, !.stamp = 0,
                               !.ret = Returned(cl.data)]]
  /\ UNCHANGED <<now, redisClient, memoryCache, nextCall, bg>>
  /\ UNCHANGED <<rlVars, extVars>>

\* await fetchFunction() of the fallback settles (lines 155-160)
FallbackReturn(c, d) ==
  /\ calls[c].pc = "fallback"
  /\ calls' = [calls EXCEPT ![c] = [calls[c] EXCEPT !.pc = "done", !.ret = Returned(d)]]
  /\ UNCHANGED <<now, redisClient, memoryCache, redisStore, nextCall, bg>>
  /\ UNCHANGED <<rlVars, extVars>>

FallbackThrow(c) ==
  /\ calls[c].pc = "fallback"
  /\ calls' = [calls EXCEPT ![c] = [calls[c] EXCEPT !.pc = "done", !.ret = Thrown]]
  /\ UNCHANGED <<now, redisClient, memoryCache, redisStore, nextCall, bg>>
  /\ UNCHANGED <<rlVars, extVars>>

\* the setTimeout callback of backgroundRefresh (lines 206-208) calls
\* refreshCache, which calls fetchFunction
BgTimer(c) ==
  /\ bg[c].pc = "timer"
  /\ bg' = [bg EXCEPT ![c] = [@ EXCEPT !.pc = "fetch", !.fetchCount = @ + 1]]
  /\ UNCHANGED <<now, redisClient, memoryCache, redisStore, nextCall, calls>>
  /\ UNCHANGED <<rlVars, extVars>>

\* the background refreshCache gets its value (lines 169-194, 208-212)
BgFetchReturn(c, d) ==
  /\ bg[c].pc = "fetch"
  /\ LET k == calls[c].key IN
     IF SkipStore(k, d)
     THEN /\ bg' = [bg EXCEPT ![c] = [@ EXCEPT !.pc = "done"]]
          /\ UNCHANGED memoryCache
     ELSE IF MemFull(memoryCache)
     THEN /\ bg' = [bg EXCEPT ![c] = [@ EXCEPT !.pc = "failed"]]
          /\ UNCHANGED memoryCache
     ELSE /\ memoryCache' = MemSet(memoryCache, k, d, now, calls[c].ttl)
          /\ bg' = [bg EXCEPT ![c] =
                      IF redisClient
                      THEN [@ EXCEPT !.pc = "setex", !.data = d, !.stamp = now]
                      ELSE [@ EXCEPT !.pc = "done"]]
  /\ UNCHANGED <<now, redisClient, redisStore, nextCall, calls>>
  /\ UNCHANGED <<rlVars, extVars>>

\* the background fetchFunction throws: logged (lines 210-212)
BgFetchThrow(c) ==
  /\ bg[c].pc = "fetch"
  /\ bg' = [bg EXCEPT ![c] = [@ EXCEPT !.pc = "failed"]]
  /\ UNCHANGED <<now, redisClient, memoryCache, redisStore, nextCall, calls>>
  /\ UNCHANGED <<rlVars, extVars>>

\* the background refreshCache's setex settles (lines 186-194)
BgSetexReturn(c, failed) ==
  /\ bg[c].pc = "setex"
  /\ redisStore' = IF failed THEN redisStore
                   ELSE RedisSetex(redisStore, calls[c].key, calls[c].ttl,
                                   JSONstringify(bg[c].data, bg[c].stamp))
  /\ bg' = [bg EXCEPT ![c] = [@ EXCEPT !.pc = "done", !.data = <<>>, !.stamp = 0]]
  /\ UNCHANGED <<now, redisClient, memoryCache, nextCall, calls>>
  /\ UNCHANGED <<rlVars, extVars>>

\* one second passes
Tick ==
  /\ now < MaxClock * 1000
  /\ now' = now + 1000
  /\ UNCHANGED <<redisClient, memoryCache, redisStore, nextCall, calls, bg>>
  /\ UNCHANGED <<rlVars, extVars>>

\* NodeCache's checkperiod timer (line 42) deletes the expired entries
CheckPeriod ==
  /\ \E k \in DOMAIN memoryCache : memoryCache[k].t < now
  /\ memoryCache' = [k \in {x \in DOMAIN memoryCache : ~(memoryCache[x].t < now)}
                       |-> memoryCache[k]]
  /\ UNCHANGED <<now, redisClient, redisStore, nextCall, calls, bg>>
  /\ UNCHANGED <<rlVars, extVars>>

\* redisClient.on('error') (lines 22-25): the remote tier is dropped
RedisError ==
  /\ redisClient
  /\ redisClient' = FALSE
  /\ UNCHANGED <<now, memoryCache, redisStore, nextCall, calls, bg>>
  /\ UNCHANGED <<rlVars, extVars>>

(***************************************************************************)
(* AdvancedCache.delete, clearPattern and clearAll                         *)
(***************************************************************************)
IdleAdmin ==
  [pc |-> "idle", kind |-> "none", pattern |-> "", keys |-> {},
   remote |-> "none", ret |-> "pending"]

AdminIdle == admin = IdleAdmin

\* the maintenance call returns to its caller
AdminDone(o) == [o EXCEPT !.pc = "done", !.ret = "returned"]

\* the catch blocks, mutated: the Redis error is rethrown
SurfaceRemoteError(o) == [o EXCEPT !.pc = "done", !.remote = "failed", !.ret = "thrown"]

\* the catch blocks of clearAll (242-244), clearPattern (280-282) and delete
\* (295-297): the Redis error is logged and the call returns
SwallowRemoteError(o) == [o EXCEPT !.pc = "done", !.remote = "failed", !.ret = "returned"]

\* NodeCache.del / flushAll: the entries of the keys in ks are dropped
MemDel(mem, ks) == [x \in (DOMAIN mem) \ ks |-> mem[x]]

\* redisClient.del(...keys) / flushall
RedisDel(store, ks) == [x \in (DOMAIN store) \ ks |-> store[x]]

\* redisClient.keys(`*${pattern}*`)
RedisKeys(store, pattern) ==
  {k \in DOMAIN store : RedisLive(store, k) /\ KeyIncludes(k, pattern)}

\* delete(key) up to its await (lines 289-294)
Delete(k) ==
  /\ admin.pc = "idle"
  /\ memoryCache' = MemDel(memoryCache, {k})
  /\ admin' = IF redisClient
              THEN [admin EXCEPT !.pc = "del", !.kind = "delete", !.keys = {k}]
              ELSE AdminDone([admin EXCEPT !.kind = "delete", !.keys = {k}])
  /\ UNCHANGED <<now, redisClient, redisStore, nextCall, calls, bg>>
  /\ UNCHANGED <<rlVars, cleanupVars, managerVars, workerVars>>

\* await redisClient.del(key) of delete settles (lines 294-297)
DelReturn(failed) ==
  /\ admin.pc = "del"
  /\ IF failed
     THEN /\ admin' = SwallowRemoteError(admin)
          /\ UNCHANGED redisStore
     ELSE /\ admin' = AdminDone([admin EXCEPT !.remote = "ok"])
          /\ redisStore' = RedisDel(redisStore, admin.keys)
  /\ UNCHANGED <<now, redisClient, memoryCache, nextCall, calls, bg>>
  /\ UNCHANGED <<rlVars, cleanupVars, managerVars, workerVars>>

\* clearPattern(pattern) up to its first await (lines 262-275)
ClearPattern(pattern) ==
  /\ admin.pc = "idle"
  /\ memoryCache' = MemDel(memoryCache,
                           {k \in DOMAIN memoryCache : KeyIncludes(k, pattern)})
  /\ admin' = IF redisClient
              THEN [admin EXCEPT !.pc = "keys", !.kind = "clearPattern",
                                 !.pattern = pattern]
              ELSE AdminDone([admin EXCEPT !.kind = "clearPattern",
                                           !.pattern = pattern])
  /\ UNCHANGED <<now, redisClient, redisStore, nextCall, calls, bg>>
  /\ UNCHANGED <<rlVars, cleanupVars, managerVars, workerVars>>

\* await redisClient.keys(...) settles (lines 275-282); when the error
\* handler has nulled redisClient meanwhile, redisClient.del throws a
\* TypeError inside the same try
KeysReturn(failed) ==
  /\ admin.pc = "keys"
  /\ LET found == RedisKeys(redisStore, admin.pattern) IN
     admin' = IF failed THEN SwallowRemoteError(admin)
              ELSE IF found = {} THEN AdminDone([admin EXCEPT !.remote = "ok"])
              ELSE IF redisClient THEN [admin EXCEPT !.pc = "patternDel", !.keys = found]
              ELSE SwallowRemoteError(admin)
  /\ UNCHANGED cacheVars
  /\ UNCHANGED <<rlVars, cleanupVars, managerVars, workerVars>>

\* await redisClient.del(...keys) of clearPattern settles (lines 277-282)
PatternDelReturn(failed) ==
  /\ admin.pc = "patternDel"
  /\ IF failed
     THEN /\ admin' = SwallowRemoteError(admin)
          /\ UNCHANGED redisStore
     ELSE /\ admin' = AdminDone([admin EXCEPT !.remote = "ok"])
          /\ redisStore' = RedisDel(redisStore, admin.keys)
  /\ UNCHANGED <<now, redisClient, memoryCache, nextCall, calls, bg>>
  /\ UNCHANGED <<rlVars, cleanupVars, managerVars, workerVars>>

\* clearAll up to its await (lines 236-241)
ClearAll ==
  /\ admin.pc = "idle"
  /\ memoryCache' = MemDel(memoryCache, DOMAIN memoryCache)
  /\ admin' = IF redisClient
              THEN [admin EXCEPT !.pc = "flushall", !.kind = "clearAll"]
              ELSE AdminDone([admin EXCEPT !.kind = "clearAll"])
  /\ UNCHANGED <<now, redisClient, redisStore, nextCall, calls, bg>>
  /\ UNCHANGED <<rlVars, cleanupVars, managerVars, workerVars>>

\* await redisClient.flushall() settles (lines 241-257)
FlushallReturn(failed) ==
  /\ admin.pc = "flushall"
  /\ IF failed
     THEN /\ admin' = SwallowRemoteError(admin)
          /\ UNCHANGED redisStore
     ELSE /\ admin' = AdminDone([admin EXCEPT !.remote = "ok"])
          /\ redisStore' = RedisDel(redisStore, DOMAIN redisStore)
  /\ UNCHANGED <<now, redisClient, memoryCache, nextCall, calls, bg>>
  /\ UNCHANGED <<rlVars, cleanupVars, managerVars, workerVars>>

AdminNext ==
  \/ \E k \in Keys : Delete(k)
  \/ \E failed \in BOOLEAN : DelReturn(failed)
  \/ \E pattern \in Patterns : ClearPattern(pattern)
  \/ \E failed \in BOOLEAN : KeysReturn(failed)
  \/ \E failed \in BOOLEAN : PatternDelReturn(failed)
  \/ ClearAll
  \/ \E failed \in BOOLEAN : FlushallReturn(failed)


CacheNext ==
  \/ \E k \in Keys, ttl \in TTLs, st \in StaleTimes, p \in CachePriorities :
       GetWithSWR(k, ttl, st, p)
  \/ \E c \in CallIds, failed \in BOOLEAN : RedisGetReturn(c, failed)
  \/ \E c \in CallIds, d \in Payloads : FetchReturn(c, d)
  \/ \E c \in CallIds : FetchThrow(c)
  \/ \E c \in CallIds, failed \in BOOLEAN : SetexReturn(c, failed)
  \/ \E c \in CallIds, d \in Payloads : FallbackReturn(c, d)
  \/ \E c \in CallIds : FallbackThrow(c)
  \/ \E c \in CallIds : BgTimer(c)
  \/ \E c \in CallIds, d \in Payloads : BgFetchReturn(c, d)
  \/ \E c \in CallIds : BgFetchThrow(c)
  \/ \E c \in CallIds, failed \in BOOLEAN : BgSetexReturn(c, failed)
  \/ Tick
  \/ CheckPeriod
  \/ RedisError

\* the components that a specification leaves as constructed
CleanupIdle == cacheKeys = <<>> /\ lastCleanup = NoCleanup

ManagerIdle == isInitialized = FALSE /\ smart = [c \in CallIds |-> IdleSmart]

WorkerIdle ==
  /\ wQueue = <<>>
  /\ processedToday = 0
  /\ nextJob = 0
  /\ jobs = [j \in JobIds |-> IdleJob]
  /\ lastDrain = NoDrain
  /\ scan = "none"

\* the cache is exercised while the rate limiter stays as constructed
InitCache == RLInit /\ CacheInit /\ AdminIdle /\ CleanupIdle /\ ManagerIdle /\ WorkerIdle

SpecCache == InitCache /\ [][CacheNext]_vars

\* getWithSWR calls and one maintenance call inside one second of the clock
\* (no entry turns stale, so no background refresh is scheduled)
RemoteNext ==
  \/ \E k \in Keys, ttl \in TTLs, st \in StaleTimes, p \in CachePriorities :
       GetWithSWR(k, ttl, st, p)
  \/ \E c \in CallIds, failed \in BOOLEAN : RedisGetReturn(c, failed)
  \/ \E c \in CallIds, d \in Payloads : FetchReturn(c, d)
  \/ \E c \in CallIds : FetchThrow(c)
  \/ \E c \in CallIds, failed \in BOOLEAN : SetexReturn(c, failed)
  \/ \E c \in CallIds, d \in Payloads : FallbackReturn(c, d)
  \/ \E c \in CallIds : FallbackThrow(c)
  \/ RedisError
  \/ AdminNext

SpecRemote == InitCache /\ [][RemoteNext]_vars

RLNext ==
  \/ \E c \in Costs, p \in Priorities : ExecuteRequest(c, p)
  \/ \E id \in ReqIds, ok \in BOOLEAN : Complete(id, ok)
  \/ ResumeProcessQueue
  \/ RefillTimer
  \/ ProcessTimer
  \/ \E id \in ReqIds : QueueTimeout(id)

\* the rate limiter is exercised while the cache stays as constructed
InitRL == RLInit /\ CacheIdle /\ AdminIdle /\ CleanupIdle /\ ManagerIdle /\ WorkerIdle

SpecRL == InitRL /\ [][RLNext]_vars

(***************************************************************************)
(* Properties of the rate limiter                                          *)
(***************************************************************************)
\* the request was taken from the queue by processQueue
Dispatched(i) == viaQueue[i] /\ invoked[i] > 0

\* both 'high', or both not 'high' (the only distinction queueRequest makes)
SameClass(i, j) == (priority[i] = "high") <=> (priority[j] = "high")

\* tokens of the requests admitted since the last refill whose
\* requestFunction has returned successfully
WindowOkTokens ==
  SumOver(estimatedTokens, {i \in ReqIds : inWindow[i] /\ fnResult[i] = "ok"})

\* C1 (budget conservation): within one refill window the estimatedTokens of
\* the requests admitted in that window whose requestFunction does not fail
\* never add up to more than tokensPerMinute.
BudgetConservation == WindowOkTokens <= tokensPerMinute

\* C2 (priority ordering): whenever a request that is not 'high' is
\* dispatched from the queue, no 'high' request is waiting in the queue; so
\* of the requests queued together every dispatched 'high' one is dispatched
\* before any other one.
PriorityOrdering ==
  \A i \in ReqIds :
    (Dispatched(i) /\ priority[i] # "high")
      => \A j \in leftBehind[i] : priority[j] # "high"

\* C2 witness: a 'normal' request was queued first, a 'high' one after it,
\* the 'high' one was dispatched while the 'normal' one waited, and the
\* 'normal' one was dispatched later.
PriorityOrderingWitness ==
  \E h, n \in ReqIds :
    /\ n < h
    /\ priority[h] = "high" /\ priority[n] = "normal"
    /\ Dispatched(h) /\ Dispatched(n)
    /\ n \in leftBehind[h]

\* C3 (FIFO within a class): a request is never dispatched while a request
\* of the same class that was enqueued before it is still waiting.  Request
\* ids grow with the submission order.
FifoWithinClass ==
  \A i \in ReqIds :
    Dispatched(i) => \A j \in leftBehind[i] : SameClass(i, j) => j > i

\* C4 (timeout enforcement): the timer is pending exactly while the request
\* is queued; when it fires the request leaves the queue and is rejected as
\* timed out; from then on its requestFunction is never called, its promise
\* stays rejected and it is never admitted; neither enqueueing nor the
\* timeout changes availableTokens.
TimeoutEnforcement ==
  /\ [](\A i \in ReqIds :
          /\ timeout[i] <=> status[i] = "queued"
          /\ status[i] = "queued" <=> i \in Range(queue))
  /\ [][\A i \in ReqIds :
          /\ (status[i] = "new" /\ status'[i] = "queued")
               => availableTokens' = availableTokens
          /\ (status[i] = "queued" /\ status'[i] = "timedout")
               => /\ availableTokens' = availableTokens
                  /\ i \notin Range(queue')
          /\ status[i] = "timedout"
               => /\ status'[i] = "timedout"
                  /\ i \notin Range(queue')
                  /\ invoked'[i] = 0
                  /\ preAdmit'[i] = NotAdmitted]_vars

\* C4 witness: a request timed out in the queue, and later the budget would
\* have covered it and another queued request was dispatched and resolved.
TimeoutEnforcementWitness ==
  \E i, j \in ReqIds :
    /\ i # j
    /\ status[i] = "timedout"
    /\ availableTokens >= estimatedTokens[i]
    /\ viaQueue[j] /\ status[j] = "resolved"

\* C5 (credit-back on failure): when requestFunction throws, exactly the
\* request's estimatedTokens return to availableTokens, which is the value
\* before its admission when nothing else changed the budget in between;
\* the queue and every other request are left as they are, and only this
\* request's caller is rejected (the resumed drain may dispatch the head).
CreditBackOnFailure ==
  [][\A i \in ReqIds :
       /\ (fnResult[i] = "none" /\ fnResult'[i] = "throw")
            => /\ availableTokens' = availableTokens + estimatedTokens[i]
               /\ (preAdmit[i].clean => availableTokens' = preAdmit[i].value)
               /\ queue' = queue
               /\ timeout' = timeout
               /\ \A j \in ReqIds \ {i} : status'[j] = status[j]
               /\ status'[i] = IF viaQueue[i] THEN status[i] ELSE "rejected"
       /\ (status[i] = "running" /\ status'[i] = "rejected")
            => /\ fnResult'[i] = "throw"
               /\ \A j \in ReqIds \ {i} :
                    status'[j] # status[j]
                      => /\ status[j] = "queued" /\ status'[j] = "running"
                         /\ j = Head(queue)
               /\ (queue' = queue \/ (Len(queue) > 0 /\ queue' = Tail(queue)))]_vars

\* C5 witness: a dispatched request failed undisturbed while others are still
\* queued; the budget is back at its pre-admission value.
CreditBackOnFailureWitness ==
  \E i \in ReqIds :
    /\ resuming = i
    /\ fnResult[i] = "throw"
    /\ preAdmit[i].clean
    /\ availableTokens = preAdmit[i].value
    /\ Len(queue) > 0

\* C6 (refill then drain): the refill timer resets availableTokens to
\* tokensPerMinute and dispatches the head of the queue when its cost is at
\* most tokensPerMinute; a dispatched request's caller gets the outcome of
\* its requestFunction.
RefillThenDrain ==
  /\ [][RefillTimer =>
          IF Len(queue) > 0 /\ estimatedTokens[Head(queue)] <= tokensPerMinute
          THEN LET h == Head(queue) IN
               /\ status'[h] = "running"
               /\ invoked'[h] = 1
               /\ ~timeout'[h]
               /\ queue' = Tail(queue)
               /\ availableTokens' = tokensPerMinute - estimatedTokens[h]
          ELSE /\ availableTokens' = tokensPerMinute
               /\ queue' = queue]_vars
  /\ [](\A i \in ReqIds :
          (viaQueue[i] /\ fnResult[i] # "none" /\ resuming # i)
            => status[i] = IF fnResult[i] = "ok" THEN "resolved" ELSE "rejected")

\* C6 witness (the spec's scenario): a request costing 80 was admitted at
\* once and succeeded, a later one costing 30 was queued and has completed.
RefillThenDrainWitness ==
  \E a, b \in ReqIds :
    /\ a < b
    /\ estimatedTokens[a] = 80 /\ ~viaQueue[a] /\ fnResult[a] = "ok"
    /\ estimatedTokens[b] = 30 /\ viaQueue[b] /\ status[b] = "resolved"

(***************************************************************************)
(* Properties of the cache                                                 *)
(***************************************************************************)
\* the call missed the local tier and found nothing in the remote tier
\* (looked up and absent, or no remote tier)
FullMiss(c) == calls[c].l1 = "miss" /\ calls[c].l2 \in {"none", "miss"}

\* the step in which call c is made and runs up to its first await
CallStep(c) == calls[c].pc = "idle" /\ calls'[c].pc # "idle"

\* C7 (compute failure on a full miss): when the key is absent from both
\* tiers and fetchFunction throws, getWithSWR ends by throwing to its
\* caller, and the call stores nothing in either tier.
ComputeFailurePropagates ==
  /\ [](\A c \in CallIds :
          (calls[c].pc = "done" /\ FullMiss(c) /\ calls[c].firstFetch = "throw")
            => calls[c].ret.state = "thrown")
  /\ [][\A c \in CallIds :
          (calls'[c] # calls[c] /\ calls'[c].firstFetch = "throw")
            => (memoryCache' = memoryCache /\ redisStore' = redisStore)]_vars

\* C8 (stale serves then refreshes): a call that finds a local entry older
\* than (ttl - staleTime) seconds returns the stored payload without having
\* called fetchFunction; unless its priority is 'low' it schedules exactly
\* one background fetchFunction call, whose successful result replaces the
\* local entry; with 'low' nothing is scheduled or fetched.  Read together
\* with the empty-result rule: an empty array for an 'articles' key is not
\* expected to be stored.
StaleServesThenRefreshes ==
  /\ [][\A c \in CallIds :
          /\ (CallStep(c) /\ MemLive(memoryCache, calls'[c].key)
                /\ now - memoryCache[calls'[c].key].timestamp
                     > (calls'[c].ttl - calls'[c].staleTime) * 1000)
               => /\ calls'[c].pc = "done"
                  /\ calls'[c].ret = Returned(memoryCache[calls'[c].key].data)
                  /\ calls'[c].fetchCount = 0
                  /\ bg'[c].fetchCount = 0
                  /\ bg'[c].pc = IF calls'[c].priority = "low" THEN "none" ELSE "timer"
          /\ \A d \in Payloads :
               (BgFetchReturn(c, d) /\ ~SkipStore(calls[c].key, d))
                 => /\ calls[c].key \in DOMAIN memoryCache'
                    /\ memoryCache'[calls[c].key].data = d
                    /\ memoryCache'[calls[c].key].timestamp = now]_vars
  /\ [](\A c \in CallIds :
          /\ bg[c].fetchCount <= 1
          /\ calls[c].fetchCount > 0 => bg[c].pc = "none"
          /\ calls[c].priority = "low" => bg[c] = NoBg)

\* C9 (freshness): a call that finds a local entry younger than
\* (ttl - staleTime) seconds returns exactly the stored payload, leaves both
\* tiers as they are, does not call or schedule fetchFunction and looks
\* nothing up in the remote cache, neither in that step nor later.
Freshness ==
  /\ [][\A c \in CallIds :
          (CallStep(c) /\ MemLive(memoryCache, calls'[c].key)
             /\ now - memoryCache[calls'[c].key].timestamp
                  < (calls'[c].ttl - calls'[c].staleTime) * 1000)
            => /\ calls'[c].pc = "done"
               /\ calls'[c].l1 = "fresh"
               /\ calls'[c].ret = Returned(memoryCache[calls'[c].key].data)
               /\ bg'[c] = NoBg
               /\ memoryCache' = memoryCache
               /\ redisStore' = redisStore]_vars
  /\ [](\A c \in CallIds :
          calls[c].l1 = "fresh"
            => /\ calls[c].pc = "done"
               /\ calls[c].fetchCount = 0
               /\ calls[c].l2 = "none"
               /\ bg[c] = NoBg)

\* C9 witness: a call was served a fresh local entry that an earlier call
\* had fetched and stored.
FreshnessWitness ==
  \E c1, c2 \in CallIds :
    /\ c1 < c2
    /\ calls[c1].key = calls[c2].key
    /\ calls[c1].fetchCount = 1 /\ calls[c1].ret.state = "returned"
    /\ calls[c2].l1 = "fresh"
    /\ calls[c2].ret = calls[c1].ret
    /\ Len(calls[c2].ret.data) > 0

\* C10 (empty-result non-poisoning): no tier ever holds an empty array under
\* a key containing 'articles'; when fetchFunction resolves to an empty array
\* for such a key the call returns it and writes nothing; any call that
\* finds the key in neither tier calls fetchFunction.
EmptyResultNotCached ==
  /\ [](\A k \in Keys :
          KeyIncludes(k, "articles")
            => /\ k \in DOMAIN memoryCache => Len(memoryCache[k].data) > 0
               /\ k \in DOMAIN redisStore
                    => Len(JSONparse(redisStore[k].json).data) > 0)
  /\ [](\A c \in CallIds :
          (calls[c].pc = "done" /\ calls[c].l1 = "miss" /\ calls[c].l2 # "hit")
            => calls[c].fetchCount >= 1)
  /\ [][\A c \in CallIds :
          (FetchReturn(c, <<>>) /\ KeyIncludes(calls[c].key, "articles"))
            => /\ calls'[c].pc = "done"
               /\ calls'[c].ret = Returned(<<>>)
               /\ memoryCache' = memoryCache
               /\ redisStore' = redisStore]_vars

\* C10 witness: a call for an 'articles' key got an empty array from
\* fetchFunction; the next call for the key, inside the TTL window, missed
\* both tiers and called fetchFunction again.
EmptyResultNotCachedWitness ==
  \E c1, c2 \in CallIds :
    /\ c1 < c2
    /\ calls[c1].key = calls[c2].key
    /\ KeyIncludes(calls[c1].key, "articles")
    /\ calls[c1].pc = "done" /\ calls[c1].firstFetch = "ok"
    /\ calls[c1].fetchCount = 1
    /\ calls[c1].ret = Returned(<<>>)
    /\ now < calls[c1].ttl * 1000
    /\ FullMiss(c2)
    /\ calls[c2].fetchCount >= 1

\* C11 (remote-tier failures are invisible): a failing redis get, setex,
\* del, keys or flushall never makes getWithSWR, refreshCache, delete,
\* clearPattern or clearAll throw; the failing step leaves both tiers as
\* they are and the call goes on exactly as a call made with the remote
\* tier disabled: a failed get leaves getWithSWR where a local miss without
\* Redis leaves it (fetchFunction called once), a failed setex returns the
\* value just fetched, a failed maintenance command returns normally.  A
\* getWithSWR call throws only when its own fetchFunction has thrown.
RemoteFailuresInvisible ==
  /\ [](admin.ret # "thrown")
  /\ [](\A c \in CallIds :
          calls[c].ret.state = "thrown"
            => (calls[c].fetchCount = 2 /\ calls[c].l2 # "hit"))
  /\ [][/\ \A c \in CallIds :
            /\ RedisGetReturn(c, TRUE)
                 => /\ [calls'[c] EXCEPT !.l2 = "none"]
                         = StartFetch([IdleCall EXCEPT !.key = calls[c].key,
                                                       !.ttl = calls[c].ttl,
                                                       !.staleTime = calls[c].staleTime,
                                                       !.priority = calls[c].priority,
                                                       !.l1 = "miss"])
                    /\ memoryCache' = memoryCache
                    /\ redisStore' = redisStore
            /\ SetexReturn(c, TRUE)
                 => /\ calls'[c].pc = "done"
                    /\ calls'[c].ret = Returned(calls[c].data)
                    /\ memoryCache' = memoryCache
                    /\ redisStore' = redisStore
      /\ (admin.remote # "failed" /\ admin'.remote = "failed")
            => /\ admin'.pc = "done"
               /\ admin'.ret = "returned"
               /\ memoryCache' = memoryCache
               /\ redisStore' = redisStore]_vars

\* C11 witness: a getWithSWR call whose Redis get failed has returned what
\* fetchFunction gave it although the Redis setex failed too, and a
\* maintenance call whose Redis command failed has returned.
RemoteFailuresInvisibleWitness ==
  \E c \in CallIds :
    /\ calls[c].l2 = "error"
    /\ calls[c].pc = "done"
    /\ calls[c].fetchCount = 1
    /\ calls[c].ret.state = "returned"
    /\ Len(calls[c].ret.data) > 0
    /\ calls[c].key \notin DOMAIN redisStore
    /\ admin.pc = "done"
    /\ admin.remote = "failed"
    /\ admin.kind = "clearPattern"

\* C12 (local capacity): the local cache never holds more than maxKeys
\* entries and a store never fails for capacity: whenever refreshCache has
\* fetched a value that is to be cached, the key is in the local cache
\* afterwards with that value, also when maxKeys unexpired other keys were
\* stored before it (the earliest of them then has to go).
LocalCapacity ==
  /\ [](Cardinality(DOMAIN memoryCache) <= maxKeys)
  /\ [][\A c \in CallIds, d \in Payloads :
          (FetchReturn(c, d) /\ ~SkipStore(calls[c].key, d))
            => /\ calls[c].key \in DOMAIN memoryCache'
               /\ memoryCache'[calls[c].key].data = d
               /\ Cardinality(DOMAIN memoryCache') <= maxKeys
               /\ calls'[c].pc # "fallback"]_vars

(***************************************************************************)
(* advancedCache.cleanup, on the key list of the NodeCache at its real     *)
(* size                                                                    *)
(***************************************************************************)
\* keys.slice(0, Math.floor(keyCount * 0.2)); for every count up to 2000 the
\* double product floors to the integer quotient keyCount * 2 / 10
KeysToDelete(keys) == SubSeq(keys, 1, (Len(keys) * 2) \div 10)

\* keysToDelete.forEach(key => memoryCache.del(key))
RemoveKeys(keys, del) ==
  SubSeq(keys, Len(del) + 1, Len(keys))

\* the cleanup interval callback (lines 384-399, 402-404)
Cleanup ==
  /\ LET keyCount == Len(cacheKeys) IN
     IF keyCount > CleanupThreshold
     THEN LET keysToDelete == KeysToDelete(cacheKeys) IN
          /\ cacheKeys' = RemoveKeys(cacheKeys, keysToDelete)
          /\ lastCleanup' = [ran |-> TRUE, keyCount |-> keyCount,
                             deleted |-> keysToDelete]
     ELSE /\ cacheKeys' = cacheKeys
          /\ lastCleanup' = [ran |-> FALSE, keyCount |-> keyCount, deleted |-> <<>>]
  /\ UNCHANGED <<rlVars, cacheVars, adminVars, managerVars, workerVars>>

CleanupNext == Cleanup

\* the cache holds any number of keys up to maxKeys, numbered in the order
\* of their insertion
InitCleanup ==
  /\ RLInit /\ CacheIdle /\ AdminIdle /\ ManagerIdle /\ WorkerIdle
  /\ cacheKeys \in {[i \in 1..n |-> i] : n \in 0..MaxKeyCount}
  /\ lastCleanup = NoCleanup

SpecCleanup == InitCleanup /\ [][CleanupNext]_vars

\* C13 (batch eviction): whenever cleanup finds more than CleanupThreshold
\* keys it removes at least 20% of the keys present, and the keys it removes
\* are the oldest-inserted ones, for every key count up to the maximum.
BatchEviction ==
  [][(Cleanup /\ Len(cacheKeys) > CleanupThreshold)
       => LET removed == Len(cacheKeys) - Len(cacheKeys') IN
          /\ removed * 100 >= 20 * Len(cacheKeys)
          /\ cacheKeys' = SubSeq(cacheKeys, removed + 1, Len(cacheKeys))]_vars

(***************************************************************************)
(* OptimizationManager.callGroqAPI and the CommentaryWorker                *)
(***************************************************************************)
Min(a, b) == IF a < b THEN a ELSE b
\* Math.max, mutated: the floor is lost
MaxUnfloored(a, b) == b

Max(a, b) == IF a > b THEN a ELSE b

\* calculatePriority (lines 80-98)
calculatePriority(article) ==
  LET base == 5
      age == IF article.ageHours < 6 THEN 3
             ELSE IF article.ageHours < 24 THEN 2
             ELSE IF article.ageHours < 48 THEN 1 ELSE 0
      cat == IF article.section \in {"politics", "business", "technology", "health"}
             THEN 2 ELSE 0
      v == IF article.views > 100 THEN 1 ELSE 0
      sh == IF article.shares > 10 THEN 1 ELSE 0
  IN Min(base + age + cat + v + sh, 10)

\* isInQueue (lines 103-105)
isInQueue(q, articleId) == \E i \in 1..Len(q) : q[i].articleId = articleId

\* the for loop of addArticlesToQueue (lines 57-69)
RECURSIVE PushArticles(_, _)
PushArticles(q, articles) ==
  IF articles = <<>> THEN q
  ELSE LET article == Head(articles)
           q1 == IF ~article.commentary /\ ~isInQueue(q, article.id)
                 THEN Append(q, [articleId |-> article.id,
                                 priority |-> calculatePriority(article)])
                 ELSE q
       IN PushArticles(q1, Tail(articles))

\* one item put into a list that is sorted by b.priority - a.priority, after
\* the items that compare equal to it
RECURSIVE InsertByPriority(_, _)
InsertByPriority(sorted, item) ==
  IF sorted = <<>> THEN <<item>>
  ELSE IF Head(sorted).priority >= item.priority
       THEN <<Head(sorted)>> \o InsertByPriority(Tail(sorted), item)
       ELSE <<item>> \o sorted

\* this.queue.sort(...), mutated: the queue is left in push order
SortByPriorityNot(q) == q

\* this.queue.sort((a, b) => b.priority - a.priority): a stable sort
RECURSIVE SortByPriority(_)
SortByPriority(q) ==
  IF q = <<>> THEN <<>>
  ELSE InsertByPriority(SortByPriority(SubSeq(q, 1, Len(q) - 1)), q[Len(q)])

\* error.message.includes(needle)
Includes(message, needle) == \E i \in 1..Len(message) : message[i] = needle

\* the catch of processQueue (lines 134-143): the queue after the error
Requeue(q, item, error) ==
  IF Includes(error.message, "Rate limit") \/ Includes(error.message, "timeout")
  THEN SortByPriority(Append(q, [item EXCEPT !.priority = Max(1, @ - 1)]))
  ELSE q

\* the job ends in the catch of processQueue
Failed(job, error) ==
  [job EXCEPT !.pc = "done", !.error = error,
              !.outcome = IF Includes(error.message, "Rate limit")
                             \/ Includes(error.message, "timeout")
                          THEN "requeued" ELSE "dropped"]

\* optimizationManager.initialize() has run to its end (line 520)
InitializeDone ==
  /\ ~isInitialized
  /\ isInitialized' = TRUE
  /\ UNCHANGED smart
  /\ UNCHANGED <<rlVars, cacheVars, adminVars, cleanupVars, workerVars>>

\* addArticlesToQueue (lines 56-75)
AddArticlesToQueue(articles) ==
  /\ resuming = 0
  /\ wQueue' = SortByPriority(PushArticles(wQueue, articles))
  /\ UNCHANGED <<processedToday, nextJob, jobs, lastDrain>>
  /\ UNCHANGED <<rlVars, cacheVars, adminVars, cleanupVars, managerVars, scan>>

\* the drain interval callback: processQueue (lines 110-126) down to the
\* await in generateCommentary, through optimizedGroqCall and callGroqAPI
\* (part_002 lines 613-623), into executeRequest or straight into request()
DrainTick ==
  /\ resuming = 0
  /\ IF Len(wQueue) = 0
     THEN /\ lastDrain' = [NoDrain EXCEPT !.found = "empty"]
          /\ UNCHANGED <<wQueue, processedToday, nextJob, jobs, rlVars>>
     ELSE IF processedToday >= maxDailyCommentaries
     THEN /\ lastDrain' = [found |-> "quota"]
          /\ UNCHANGED <<wQueue, processedToday, nextJob, jobs, rlVars>>
     ELSE /\ nextJob < MaxJobs
          /\ LET j == nextJob + 1
                 item == Head(wQueue)
             IN
             /\ nextJob' = j
             /\ wQueue' = Tail(wQueue)
             /\ lastDrain' = [found |-> "item"]
             /\ UNCHANGED processedToday
             /\ IF isInitialized
                THEN /\ executeRequest(DefaultEstimatedTokens, "background")
                     /\ jobs' = [jobs EXCEPT ![j] =
                                   [IdleJob EXCEPT !.pc = "limited", !.item = item,
                                                   !.req = nextId + 1]]
                ELSE /\ jobs' = [jobs EXCEPT ![j] =
                                   [IdleJob EXCEPT !.pc = "direct", !.item = item,
                                                   !.direct = TRUE]]
                     /\ UNCHANGED rlVars
  /\ UNCHANGED <<cacheVars, adminVars, cleanupVars, managerVars, scan>>

\* the text generation has produced a completion: generateCommentary line
\* 185, processQueue lines 128-129
GotCompletion(j, content) ==
  jobs' = [jobs EXCEPT ![j] =
             IF content = "text" THEN [@ EXCEPT !.pc = "saving"]
             ELSE [@ EXCEPT !.pc = "done", !.outcome = "nocontent"]]

\* the promise of executeRequest has settled and callGroqAPI,
\* generateCommentary and processQueue run on (part_002 lines 623-633,
\* part_011 lines 126-143)
WorkerResume(j, content, error) ==
  /\ resuming = 0
  /\ jobs[j].pc = "limited"
  /\ LET st == status[jobs[j].req] IN
     /\ st \in {"resolved", "rejected", "timedout"}
     /\ IF st = "resolved"
        THEN /\ GotCompletion(j, content)
             /\ UNCHANGED wQueue
        ELSE LET err == IF st = "timedout" THEN QueueTimeoutError ELSE error IN
             /\ jobs' = [jobs EXCEPT ![j] = Failed(@, err)]
             /\ wQueue' = Requeue(wQueue, jobs[j].item, err)
  /\ UNCHANGED <<processedToday, nextJob, lastDrain>>
  /\ UNCHANGED <<rlVars, cacheVars, adminVars, cleanupVars, managerVars, scan>>

\* the request() that callGroqAPI called directly has returned (part_002
\* line 617)
DirectReturn(j, content) ==
  /\ resuming = 0
  /\ jobs[j].pc = "direct"
  /\ GotCompletion(j, content)
  /\ UNCHANGED <<wQueue, processedToday, nextJob, lastDrain>>
  /\ UNCHANGED <<rlVars, cacheVars, adminVars, cleanupVars, managerVars, scan>>

\* the request() that callGroqAPI called directly has thrown
DirectThrow(j, error) ==
  /\ resuming = 0
  /\ jobs[j].pc = "direct"
  /\ jobs' = [jobs EXCEPT ![j] = Failed(@, error)]
  /\ wQueue' = Requeue(wQueue, jobs[j].item, error)
  /\ UNCHANGED <<processedToday, nextJob, lastDrain>>
  /\ UNCHANGED <<rlVars, cacheVars, adminVars, cleanupVars, managerVars, scan>>

\* await saveCommentary(...) has returned (lines 129-131)
SaveReturn(j) ==
  /\ resuming = 0
  /\ jobs[j].pc = "saving"
  /\ processedToday' = processedToday + 1
  /\ jobs' = [jobs EXCEPT ![j] = [@ EXCEPT !.pc = "done", !.outcome = "saved"]]
  /\ UNCHANGED <<wQueue, nextJob, lastDrain>>
  /\ UNCHANGED <<rlVars, cacheVars, adminVars, cleanupVars, managerVars, scan>>

\* await saveCommentary(...) has thrown (lines 198-201, 134-143)
SaveThrow(j, error) ==
  /\ resuming = 0
  /\ jobs[j].pc = "saving"
  /\ jobs' = [jobs EXCEPT ![j] = Failed(@, error)]
  /\ wQueue' = Requeue(wQueue, jobs[j].item, error)
  /\ UNCHANGED <<processedToday, nextJob, lastDrain>>
  /\ UNCHANGED <<rlVars, cacheVars, adminVars, cleanupVars, managerVars, scan>>

\* the midnight timer of setupDailyReset (lines 215-224)
DailyReset ==
  /\ resuming = 0
  /\ processedToday' = 0
  /\ UNCHANGED <<wQueue, nextJob, jobs, lastDrain>>
  /\ UNCHANGED <<rlVars, cacheVars, adminVars, cleanupVars, managerVars, scan>>

\* the worker, the manager's initialisation and the limiter behind them; the
\* worker is the limiter's only client
WorkerNext ==
  \/ InitializeDone
  \/ \E articles \in Batches : AddArticlesToQueue(articles)
  \/ DrainTick
  \/ \E j \in JobIds, content \in {"text", "empty"}, error \in ProviderErrors :
       WorkerResume(j, content, error)
  \/ \E j \in JobIds, content \in {"text", "empty"} : DirectReturn(j, content)
  \/ \E j \in JobIds, error \in ProviderErrors : DirectThrow(j, error)
  \/ \E j \in JobIds : SaveReturn(j)
  \/ \E j \in JobIds, error \in ProviderErrors : SaveThrow(j, error)
  \/ DailyReset
  \/ \E id \in ReqIds, ok \in BOOLEAN : Complete(id, ok)
  \/ ResumeProcessQueue
  \/ RefillTimer
  \/ ProcessTimer
  \/ \E id \in ReqIds : QueueTimeout(id)

InitWorker == RLInit /\ CacheIdle /\ AdminIdle /\ CleanupIdle /\ ManagerIdle /\ WorkerIdle

SpecWorker == InitWorker /\ [][WorkerNext]_vars

\* the worker queue is sorted by priority, highest first
QueueSorted(q) == \A i \in 1..(Len(q) - 1) : q[i].priority >= q[i + 1].priority

\* C14 (hard daily quota): between two daily resets processedToday never
\* exceeds maxDailyCommentaries, whatever the interleaving of the drain ticks.
HardDailyQuota == processedToday <= maxDailyCommentaries

\* C16 (worker queue order): the worker queue is sorted by priority in
\* non-increasing order after every addArticlesToQueue call and every
\* processQueue step, and the item a drain tick takes has the maximum
\* priority of all the items queued at that moment.
WorkerQueueOrder ==
  /\ [](QueueSorted(wQueue))
  /\ [][nextJob' # nextJob
          => /\ jobs'[nextJob'].item = Head(wQueue)
             /\ \A i \in 1..Len(wQueue) :
                  jobs'[nextJob'].item.priority >= wQueue[i].priority]_vars

\* C16 witness: an item that failed with a transient error was pushed back
\* with its priority lowered and the sort has moved it in front of an item
\* of lower priority.
WorkerQueueOrderWitness ==
  \E j \in JobIds :
    /\ jobs[j].outcome = "requeued"
    /\ Len(wQueue) >= 2
    /\ wQueue[1].articleId = jobs[j].item.articleId
    /\ wQueue[1].priority = jobs[j].item.priority - 1
    /\ wQueue[2].priority < wQueue[1].priority

\* C15 (transient failure re-queue): whenever the processing of an item
\* fails with a rate-limit or timeout class error (the provider's rate-limit
\* error, a timeout error, or the limiter's rejection of a request that
\* timed out in its queue) the item is put back into the worker queue with
\* its priority lowered by one.
TransientRequeue ==
  [][\A j \in JobIds :
       (jobs[j].error = NoError
          /\ jobs'[j].error.class \in {"ratelimit", "timeout", "queueTimeout"})
         => /\ Len(wQueue') = Len(wQueue) + 1
            /\ \E i \in 1..Len(wQueue') :
                 wQueue'[i] = [articleId |-> jobs[j].item.articleId,
                               priority |-> jobs[j].item.priority - 1]]_vars

\* C17 (job lifecycle on quota exhaustion): after a drain tick that finds
\* processedToday >= maxDailyCommentaries the job that was at the head of
\* the worker queue is no longer in the queue.
JobDestroyedOnQuota ==
  [][(DrainTick /\ Len(wQueue) > 0 /\ processedToday >= maxDailyCommentaries)
       => \A i \in 1..Len(wQueue') : wQueue'[i] # Head(wQueue)]_vars

\* C20 (the rate limiter is never bypassed): every text-generation call of
\* the worker goes through executeRequest: the job has a request of the
\* limiter, and that request's requestFunction has only been called after
\* the request was admitted and debited.
RateLimiterNeverBypassed ==
  \A j \in JobIds :
    jobs[j].pc # "idle"
      => /\ ~jobs[j].direct
         /\ jobs[j].req \in ReqIds
         /\ invoked[jobs[j].req] > 0 => preAdmit[jobs[j].req].admitted

(***************************************************************************)
(* OptimizationManager.smartCache (optimizedFetch) over getWithSWR         *)
(***************************************************************************)
\* this.config.cacheStrategies (lines 489-494)
cacheStrategies ==
  [articles |-> [ttl |-> 300, staleWhileRevalidate |-> TRUE],
   commentary |-> [ttl |-> 3600, staleWhileRevalidate |-> TRUE],
   nyt |-> [ttl |-> 1800, staleWhileRevalidate |-> TRUE],
   subscribers |-> [ttl |-> 600, staleWhileRevalidate |-> FALSE]]

\* smartCache line 588: the strategy's entry, or the default entry
CacheConfig(strategy) ==
  IF strategy \in DOMAIN cacheStrategies THEN cacheStrategies[strategy]
  ELSE [ttl |-> 300, staleWhileRevalidate |-> TRUE]

\* the value of a property that the object does not have
Undefined == <<"undefined">>

\* result.data (line 602) of what getWithSWR returned: the payloads are
\* arrays (or strings), which have no property 'data'
DataProperty(result) ==
  IF result \in Payloads THEN Undefined ELSE result

\* smartCache up to its first await (lines 582-597): the direct fetch when
\* the manager is not initialized, else getWithSWR(key, fetchFunction,
\* cacheConfig.ttl, cacheConfig.staleWhileRevalidate)
SmartCache(k, strategy) ==
  /\ nextCall < MaxCalls
  /\ LET c == nextCall + 1 IN
     IF ~isInitialized
     THEN /\ smart' = [smart EXCEPT ![c] =
                         [IdleSmart EXCEPT !.pc = "fetch", !.strategy = strategy,
                                           !.path = "direct", !.fetchCount = 1]]
          /\ nextCall' = c
          /\ UNCHANGED <<now, redisClient, memoryCache, redisStore, calls, bg>>
     ELSE LET o == Destructure(NumberValue(CacheConfig(strategy).ttl)) IN
          /\ smart' = [smart EXCEPT ![c] =
                         [IdleSmart EXCEPT !.pc = "swr", !.strategy = strategy,
                                           !.path = "swr"]]
          /\ getWithSWR(k, o.ttl, o.staleTime, o.priority)
  /\ UNCHANGED isInitialized
  /\ UNCHANGED <<rlVars, adminVars, cleanupVars, workerVars>>

\* await getWithSWR(...) has settled (lines 599-607)
SmartResume(c) ==
  /\ smart[c].pc = "swr"
  /\ calls[c].pc = "done"
  /\ smart' = [smart EXCEPT ![c] =
                 IF calls[c].ret.state = "returned"
                 THEN [@ EXCEPT !.pc = "done",
                                !.ret = Returned(DataProperty(calls[c].ret.data))]
                 ELSE [@ EXCEPT !.pc = "fetch", !.fetchCount = @ + 1]]
  /\ UNCHANGED isInitialized
  /\ UNCHANGED <<rlVars, cacheVars, adminVars, cleanupVars, workerVars>>

\* await fetchFunction() of smartCache has returned (lines 585, 606)
SmartFetchReturn(c, d) ==
  /\ smart[c].pc = "fetch"
  /\ smart' = [smart EXCEPT ![c] = [@ EXCEPT !.pc = "done", !.ret = Returned(d)]]
  /\ UNCHANGED isInitialized
  /\ UNCHANGED <<rlVars, cacheVars, adminVars, cleanupVars, workerVars>>

\* await fetchFunction() of smartCache has thrown
SmartFetchThrow(c) ==
  /\ smart[c].pc = "fetch"
  /\ smart' = [smart EXCEPT ![c] = [@ EXCEPT !.pc = "done", !.ret = Thrown]]
  /\ UNCHANGED isInitialized
  /\ UNCHANGED <<rlVars, cacheVars, adminVars, cleanupVars, workerVars>>

\* a hundred seconds pass
LongTick ==
  /\ now < MaxClock * 100 * 1000
  /\ now' = now + 100 * 1000
  /\ UNCHANGED <<redisClient, memoryCache, redisStore, nextCall, calls, bg>>
  /\ UNCHANGED <<rlVars, extVars>>

\* smartCache is the only caller of getWithSWR; Redis is not configured
SmartNext ==
  \/ InitializeDone
  \/ \E k \in Keys, strategy \in Strategies : SmartCache(k, strategy)
  \/ \E c \in CallIds : SmartResume(c)
  \/ \E c \in CallIds, d \in Payloads : SmartFetchReturn(c, d)
  \/ \E c \in CallIds : SmartFetchThrow(c)
  \/ \E c \in CallIds, d \in Payloads : FetchReturn(c, d)
  \/ \E c \in CallIds : FetchThrow(c)
  \/ \E c \in CallIds, d \in Payloads : FallbackReturn(c, d)
  \/ \E c \in CallIds : FallbackThrow(c)
  \/ \E c \in CallIds : BgTimer(c)
  \/ \E c \in CallIds, d \in Payloads : BgFetchReturn(c, d)
  \/ \E c \in CallIds : BgFetchThrow(c)
  \/ LongTick

InitSmart == RLInit /\ CacheIdle /\ AdminIdle /\ CleanupIdle /\ ManagerIdle /\ WorkerIdle

SpecSmart == InitSmart /\ [][SmartNext]_vars

\* C18 (strategy lookup result): a smartCache call made once the manager is
\* initialized returns the payload of the key, i.e. what getWithSWR returned
\* for it (the value fetchFunction resolved to on a cold key, the cached
\* payload on a hit), and fetchFunction is called at most once for the call.
StrategyLookupResult ==
  \A c \in CallIds :
    (smart[c].path = "swr" /\ smart[c].pc = "done"
       /\ calls[c].ret.state = "returned")
      => /\ smart[c].ret = calls[c].ret
         /\ calls[c].fetchCount + smart[c].fetchCount <= 1

\* C19 (strategy lookup policy): getWithSWR works with the ttl that the
\* strategy table lists for the call's strategy: the entry is stored with
\* that ttl and judged fresh or stale against it; a strategy with
\* staleWhileRevalidate = false never schedules a background refresh.
StrategyLookupPolicy ==
  /\ [](\A c \in CallIds :
          smart[c].path = "swr"
            => /\ calls[c].ttl = CacheConfig(smart[c].strategy).ttl
               /\ ~CacheConfig(smart[c].strategy).staleWhileRevalidate
                    => bg[c] = NoBg)
  /\ [][\A c \in CallIds, d \in Payloads :
          (smart[c].path = "swr" /\ FetchReturn(c, d)
             /\ memoryCache' # memoryCache)
            => memoryCache'[calls[c].key].t
                 = now + CacheConfig(smart[c].strategy).ttl * 1000]_vars


(***************************************************************************)
(* populateQueue: the scan for articles without commentary, called once    *)
(* when the server starts (newsletter.js line 493)                         *)
(***************************************************************************)
\* the article has commentary in the database: it was stored with it, or a
\* job saved it through updateArticleById (lines 194-197)
HasCommentary(article) ==
  \/ article.commentary
  \/ \E j \in JobIds : jobs[j].outcome = "saved" /\ jobs[j].item.articleId = article.id

\* the orders in which getAllArticles may return the articles
Scans == {s \in [1..Cardinality(Articles) -> Articles] :
            \A i, k \in DOMAIN s : i # k => s[i] # s[k]}

\* getAllArticles(50, 0) as the database answers it now
getAllArticles(order) ==
  [i \in DOMAIN order |-> [order[i] EXCEPT !.commentary = HasCommentary(order[i])]]

\* articles.filter(article => !article.commentary) (line 251)
NeedsCommentary(article) == ~article.commentary

\* populateQueue down to its await (lines 246-250)
PopulateQueue ==
  /\ resuming = 0
  /\ scan = "none"
  /\ scan' = "reading"
  /\ UNCHANGED <<wQueue, processedToday, nextJob, jobs, lastDrain>>
  /\ UNCHANGED <<rlVars, cacheVars, adminVars, cleanupVars, managerVars>>

\* getAllArticles has settled and populateQueue runs to its end (lines
\* 250-259); addArticlesToQueue has no await of its own
PopulateReturn(order, failed) ==
  /\ resuming = 0
  /\ scan = "reading"
  /\ scan' = "done"
  /\ LET articlesNeedingCommentary == SelectSeq(getAllArticles(order), NeedsCommentary)
     IN wQueue' = IF ~failed /\ Len(articlesNeedingCommentary) > 0
                  THEN SortByPriority(PushArticles(wQueue, articlesNeedingCommentary))
                  ELSE wQueue
  /\ UNCHANGED <<processedToday, nextJob, jobs, lastDrain>>
  /\ UNCHANGED <<rlVars, cacheVars, adminVars, cleanupVars, managerVars>>

\* the server as newsletter.js starts it: the manager's initialisation, the
\* worker's timers and the one populateQueue call; nothing else calls
\* addArticlesToQueue
ScanNext ==
  \/ InitializeDone
  \/ PopulateQueue
  \/ \E order \in Scans, failed \in BOOLEAN : PopulateReturn(order, failed)
  \/ DrainTick
  \/ \E j \in JobIds, content \in {"text", "empty"}, error \in ProviderErrors :
       WorkerResume(j, content, error)
  \/ \E j \in JobIds, content \in {"text", "empty"} : DirectReturn(j, content)
  \/ \E j \in JobIds, error \in ProviderErrors : DirectThrow(j, error)
  \/ \E j \in JobIds : SaveReturn(j)
  \/ \E j \in JobIds, error \in ProviderErrors : SaveThrow(j, error)
  \/ DailyReset
  \/ \E id \in ReqIds, ok \in BOOLEAN : Complete(id, ok)
  \/ ResumeProcessQueue
  \/ RefillTimer
  \/ ProcessTimer
  \/ \E id \in ReqIds : QueueTimeout(id)

InitScan == RLInit /\ CacheIdle /\ AdminIdle /\ CleanupIdle /\ ManagerIdle /\ WorkerIdle

\* the interval timers keep firing, the call made at start is made, and a
\* pending await is resumed
SpecScan ==
  /\ InitScan
  /\ [][ScanNext]_vars
  /\ WF_vars(PopulateQueue)
  /\ WF_vars(\E order \in Scans, failed \in BOOLEAN : PopulateReturn(order, failed))
  /\ WF_vars(DrainTick)
  /\ WF_vars(DailyReset)
  /\ WF_vars(RefillTimer)
  /\ WF_vars(ProcessTimer)
  /\ WF_vars(ResumeProcessQueue)

\* a processQueue run dropped the article's item in its catch
Dropped(article) ==
  \E j \in JobIds : jobs[j].outcome = "dropped" /\ jobs[j].item.articleId = article.id

\* C21 (re-discovery): an item dropped after a non-transient failure, whose
\* article still lacks commentary, is eventually back in the worker queue
\* through a later populateQueue scan, while the worker's timers keep firing.
Rediscovery ==
  \A article \in Articles :
    (Dropped(article) /\ ~HasCommentary(article))
      ~> (isInQueue(wQueue, article.id) \/ HasCommentary(article))


(***************************************************************************)
(* The cache of a process that starts while the Redis server still holds   *)
(* entries written by the process before it                                *)
(***************************************************************************)
\* Date.now() of the earlier process when it built the cacheEntry, relative
\* to the start of this one
PriorStamps == {0 - 1000, 0}

\* what setex calls of refreshCache (lines 178-188) left on the server
WarmStores ==
  {[k \in {key} |-> [json |-> JSONstringify(d, ts), exp |-> ts + ttl * 1000]] :
     key \in {<<"articles", "home">>}, d \in {<<"a">>}, ts \in PriorStamps, ttl \in TTLs}

InitWarm ==
  /\ RLInit /\ AdminIdle /\ CleanupIdle /\ ManagerIdle /\ WorkerIdle
  /\ now = 0
  /\ redisClient = TRUE
  /\ memoryCache = <<>>
  /\ redisStore \in WarmStores
  /\ nextCall = 0
  /\ calls = [c \in CallIds |-> IdleCall]
  /\ bg = [c \in CallIds |-> NoBg]

SpecWarm == InitWarm /\ [][CacheNext]_vars

\* C22 (remote hit promotion): when the key is absent locally and present
\* remotely, getWithSWR stores the retrieved payload with its original
\* timestamp locally under the call's ttl, counts a hit, returns the payload
\* and does not call fetchFunction; the next getWithSWR for the key that
\* finds the promoted entry is served from it without a remote lookup.
RemoteHitPromotion ==
  [][\A c \in CallIds :
       /\ (RedisGetReturn(c, FALSE) /\ RedisLive(redisStore, calls[c].key)
             /\ calls[c].key \notin DOMAIN memoryCache)
            => LET k == calls[c].key
                   parsedData == JSONparse(redisStore[k].json)
               IN /\ k \in DOMAIN memoryCache'
                  /\ memoryCache'[k] = [data |-> parsedData.data,
                                        timestamp |-> parsedData.timestamp,
                                        t |-> now + calls[c].ttl * 1000]
                  /\ calls'[c].pc = "done"
                  /\ calls'[c].l2 = "hit"
                  /\ calls'[c].ret = Returned(parsedData.data)
                  /\ calls'[c].fetchCount = 0
       /\ (CallStep(c) /\ MemLive(memoryCache, calls'[c].key)
             /\ \E b \in CallIds : calls[b].l2 = "hit" /\ calls[b].key = calls'[c].key)
            => /\ calls'[c].pc = "done"
               /\ calls'[c].l2 = "none"
               /\ calls'[c].ret = Returned(memoryCache[calls'[c].key].data)]_vars

\* call b missed both tiers for the key of call c and has called
\* fetchFunction as well
ConcurrentMiss(c, b) ==
  /\ b # c
  /\ calls[b].key = calls[c].key
  /\ FullMiss(b)
  /\ calls[b].fetchCount >= 1

\* C23 (no single-flight on a cold key): two calls for the same key that both
\* miss each invoke fetchFunction once, each caller receives the value of its
\* own invocation, and the invocation that finishes writes the local entry,
\* so that the entry left is the one of the invocation that finished last.
\* Read together with the empty-result rule: an empty array for an
\* 'articles' key is returned and not written.
NoSingleFlight ==
  [][\A c \in CallIds, d \in Payloads :
       (FetchReturn(c, d) /\ FullMiss(c) /\ \E b \in CallIds : ConcurrentMiss(c, b))
         => /\ calls'[c].fetchCount = 1
            /\ calls'[c].pc \in {"setex", "done"}
            /\ calls'[c].pc = "setex" => calls'[c].data = d
            /\ calls'[c].pc = "done" => calls'[c].ret = Returned(d)
            /\ ~SkipStore(calls[c].key, d)
                 => /\ calls[c].key \in DOMAIN memoryCache'
                    /\ memoryCache'[calls[c].key].data = d
                    /\ memoryCache'[calls[c].key].timestamp = now]_vars


(***************************************************************************)
(* The worker after it has run for a while: the item at the head of the    *)
(* queue has already failed with transient errors                          *)
(***************************************************************************)
MaxRetries == 5

\* item.priority after n passes through the catch of processQueue with a
\* transient error (line 138)
RECURSIVE AfterFailures(_, _)
AfterFailures(prio, n) ==
  IF n = 0 THEN prio
  ELSE AfterFailures(IF prio - 1 < 1 THEN 1 ELSE prio - 1, n - 1)

\* the queue holds the item of one article of base priority that has failed
\* n times
RetriedQueues ==
  {<<[articleId |-> article.id,
      priority |-> AfterFailures(calculatePriority(article), n)]>> :
     article \in {a \in Articles : ~a.commentary /\ calculatePriority(a) = 5},
     n \in 0..MaxRetries}

InitRetry ==
  /\ RLInit /\ CacheIdle /\ AdminIdle /\ CleanupIdle /\ ManagerIdle
  /\ wQueue \in RetriedQueues
  /\ processedToday = 0
  /\ nextJob = 0
  /\ jobs = [j \in JobIds |-> IdleJob]
  /\ lastDrain = NoDrain
  /\ scan = "none"

SpecRetry == InitRetry /\ [][WorkerNext]_vars

\* C24 (priority range): every item in the worker queue has an integer
\* priority between 1 and 10 at all times; calculatePriority yields a value
\* between 5 and 10, and no number of transient-failure decrements takes a
\* priority below 1.
PriorityRange ==
  /\ \A i \in 1..Len(wQueue) : wQueue[i].priority \in 1..10
  /\ \A article \in Articles : calculatePriority(article) \in 5..10

\* an item that was taken with priority 1 has failed with a transient error
\* and is back in the queue with priority 1
PriorityRangeWitness ==
  \E j \in JobIds :
    /\ jobs[j].outcome = "requeued"
    /\ jobs[j].item.priority = 1
    /\ \E i \in 1..Len(wQueue) :
         wQueue[i].articleId = jobs[j].item.articleId /\ wQueue[i].priority = 1


(***************************************************************************)
(* Further properties of the rate limiter                                  *)
(***************************************************************************)
\* C25 (budget bounds): availableTokens stays between 0 and tokensPerMinute
\* in every reachable state, for every interleaving of admissions, failures
\* with their credit-back, drains and refills.
BudgetBounds == availableTokens >= 0 /\ availableTokens <= tokensPerMinute

\* clearQueue line 232, mutated: the rejected entries stay in the queue
ClearedQueueKept(q) == q

\* clearQueue line 232: this.queue = []
ClearedQueue(q) == <<>>

\* clearQueue (lines 227-234): every queued entry loses its timer and is
\* rejected with 'Queue cleared', then the queue is replaced
ClearQueue ==
  /\ resuming = 0
  /\ timeout' = [i \in ReqIds |-> IF i \in Range(queue) THEN FALSE ELSE timeout[i]]
  /\ status' = [i \in ReqIds |-> IF i \in Range(queue) THEN "cleared" ELSE status[i]]
  /\ queue' = ClearedQueue(queue)
  /\ UNCHANGED <<availableTokens, nextId, estimatedTokens, priority, fnResult,
                 invoked, viaQueue, resuming, inWindow, preAdmit, leftBehind>>
  /\ UNCHANGED <<cacheVars, extVars>>

\* the limiter with its emergency reset
ClearNext ==
  \/ \E c \in Costs, p \in Priorities : ExecuteRequest(c, p)
  \/ \E id \in ReqIds, ok \in BOOLEAN : Complete(id, ok)
  \/ ResumeProcessQueue
  \/ RefillTimer
  \/ ProcessTimer
  \/ \E id \in ReqIds : QueueTimeout(id)
  \/ ClearQueue

InitClear == RLInit /\ CacheIdle /\ AdminIdle /\ CleanupIdle /\ ManagerIdle /\ WorkerIdle

SpecClear == InitClear /\ [][ClearNext]_vars

\* the promise of the request has been resolved or rejected
Settled(id) == status[id] \in {"resolved", "rejected", "timedout", "cleared"}

\* C26 (exactly one outcome): requestFunction is invoked at most once for
\* every request and the request's promise gets one outcome that never
\* changes afterwards: the result or the failure of its own invocation, the
\* queue timeout or 'Queue cleared' (the last two without any invocation),
\* also when the timers run processQueue while an earlier run is awaiting
\* and when a timeout or clearQueue races with a drain.
ExactlyOneOutcome ==
  /\ [](\A id \in ReqIds :
          /\ invoked[id] <= 1
          /\ status[id] \in {"timedout", "cleared"} => invoked[id] = 0
          /\ status[id] = "resolved" => (invoked[id] = 1 /\ fnResult[id] = "ok")
          /\ status[id] = "rejected" => (invoked[id] = 1 /\ fnResult[id] = "throw")
          /\ Settled(id) => (id \notin Range(queue) /\ ~timeout[id]))
  /\ [][\A id \in ReqIds :
          Settled(id) => (status'[id] = status[id] /\ invoked'[id] = invoked[id]
                          /\ fnResult'[id] = fnResult[id])]_vars

\* clearQueue has rejected a waiting request while a request that a drain
\* had dispatched was in flight, and that one has been resolved since
ExactlyOneOutcomeWitness ==
  \E a, b \in ReqIds :
    /\ status[a] = "cleared"
    /\ viaQueue[b] /\ status[b] = "resolved" /\ a < b

\* C27 (no overtaking): a request submitted while the queue is non-empty is
\* never admitted before the requests already waiting: executeRequest does
\* not start it at once while an entry (a 'high' one in particular) is
\* still queued.
NoOvertaking ==
  [][\A id \in ReqIds :
       (status[id] = "new" /\ status'[id] = "running") => queue = <<>>]_vars


(***************************************************************************)
(* Further properties of the commentary worker and of the cache            *)
(***************************************************************************)
\* C28 (no duplicate jobs): the worker queue never holds two items with the
\* same articleId, for every interleaving of addArticlesToQueue with a
\* processQueue run whose item is in flight and is put back after a
\* transient failure.
NoDuplicateJobs ==
  \A i, k \in 1..Len(wQueue) :
    i # k => wQueue[i].articleId # wQueue[k].articleId

\* C29 (expired entries are never served as fresh): whenever getWithSWR
\* returns a local payload whose age since its stored timestamp exceeds ttl
\* seconds (an entry promoted from Redis keeps its timestamp and gets a new
\* local ttl), the same call has scheduled a background refresh for the key,
\* whatever its priority.
ExpiredNeverFresh ==
  [][\A c \in CallIds :
       (CallStep(c) /\ MemLive(memoryCache, calls'[c].key)
          /\ now - memoryCache[calls'[c].key].timestamp > calls'[c].ttl * 1000)
         => /\ calls'[c].ret = Returned(memoryCache[calls'[c].key].data)
            /\ bg'[c].pc = "timer"]_vars

\* C30 (single computation per miss): a getWithSWR call that misses both
\* tiers invokes fetchFunction exactly once, whether the invocation
\* succeeds or fails and whether or not the store into the local or the
\* remote tier fails afterwards.
SingleComputation ==
  \A c \in CallIds :
    FullMiss(c) => /\ calls[c].fetchCount <= 1
                   /\ calls[c].pc = "done" => calls[c].fetchCount = 1


====
